---------------------------- MODULE Spec2Model ----------------------------
(***************************************************************************)
(* MeetNote: the AI-provider fallback orchestrator (AIProviderManager),    *)
(* the provider clients (Gemini with its inner retry loops, OpenAI,        *)
(* Claude), and the task ledger kept by the /api/ai routes.                *)
(*                                                                         *)
(* Spec        one request at a time runs POST /ask or GET /important-tasks*)
(*             through executeWithFallback, getWorkingProvider and the     *)
(*             selected provider's call, one step per await point.         *)
(* LedgerSpec  the ledger routes (complete-task, delete completed task,    *)
(*             priority update, meeting deletion with its clean-up) over   *)
(*             task collections as loaded from the task files.             *)
(* MeetingSpec the routes that analyse meetings (important-tasks, analyze, *)
(*             meeting creation with its automatic analysis) run through   *)
(*             the orchestrator, with complete-task between the requests.  *)
(* KeySpec     the key routes (save-key, delete-key) and GET /providers.   *)
(***************************************************************************)
EXTENDS Integers, Sequences, FiniteSets, TLC

(***************************************************************************)
(* Bounds of the model and constants of the program                        *)
(***************************************************************************)
MaxKeys == 2          \* keys a provider has in the environment at start-up
NumMeetings == 2      \* meetings in the repository
MaxAiTasks == 2       \* tasks in one AI answer
MaxLoaded == 2        \* tasks in tasks.json at start-up (LedgerSpec)
MaxIssued == 2        \* task ids the routes make up in a run (MeetingSpec)
MaxCompleted == 2     \* entries completed_tasks.json may grow to (LedgerSpec)
NumCallers == 2       \* requests the server handles at the same time

NumSlots == 5         \* base slot + _2 .. _5
maxRetries == 3       \* executeWithFallback
KeyTwice == 2         \* inner loop: "Try each key twice"
TaskLimit == 8        \* slice(0, 8)

Providers == {"gemini", "openai", "claude"}
Slots == 1..NumSlots
Responses == {"ok", "s429", "s500", "neterr"}
NoProvider == "none"
NoError == "none"
\* the preferredProvider argument: absent, a supported name, or any other string
PreferredValues == {NoProvider, "gemini", "openai", "claude", "groq"}
Meetings == 1..NumMeetings
Callers == 1..NumCallers
\* the (date, topic) a meeting can carry: one of its own; the second meeting may
\* be a revision of the first, recorded under the same date and topic
MeetingKeys(m) == IF m = 2 THEN {1, 2} ELSE {m}

VARIABLES
  env,            \* process.env: provider -> slot -> "none" | "blank" | "key"
  providers,      \* AIProviderManager.providers: provider -> instance
  pc,             \* where the request being served stands
  op,             \* "ask" | "extract" | "analyze" | "auto" | "none"
  preferred,      \* the request's provider argument
  attempt,        \* executeWithFallback: attempt
  lastError,      \* executeWithFallback: lastError
  waited,         \* executeWithFallback: waitTime of the last catch block, 0 for none
  candIdx,        \* getWorkingProvider: position in uniqueProviders
  working,        \* the provider getWorkingProvider returned in this attempt
  retryCount,     \* provider call: retryCount
  response,       \* provider call: response, [status, bodyUsed]
  outcome,        \* what executeWithFallback gave the route
  tried,          \* history: candidates of this getWorkingProvider call, with verdicts
  requests,       \* history: HTTP requests the running provider call has sent
  okSeen,         \* history: some request of the operation was answered ok
  selectedSet,    \* history: the providers the operation's attempts selected
  gemini429,      \* history: gemini answered every request of the operation with 429
  thrown,         \* the error the try block of this attempt threw
  present,        \* db.data.meetings: the ids of the meetings it holds
  meetingKey,     \* db.data.meetings: meeting -> its (date, topic)
  meetings,       \* db.data.meetings: meeting -> task_analyzed
  decision,       \* db.data.meetings: meeting -> the sentences of its decision text
  toAnalyze,      \* important-tasks: meetingsToAnalyze
  isInitialLoad,  \* important-tasks: isInitialLoad
  taskStorage,    \* routes/ai.js: taskStorage
  completedTasks, \* routes/ai.js: completedTasks
  tasksFile,      \* data/tasks.json
  completedFile,  \* data/completed_tasks.json
  nextId,         \* ids handed out so far (Date.now + counter + random suffix)
  reply,          \* the last response a route sent
  calls,          \* concurrent Gemini calls: caller -> where its retry loop stands
  inflight        \* concurrent ledger requests: caller -> the handler's locals

vars == <<env, providers, pc, op, preferred, attempt, lastError, candIdx, working,
          retryCount, response, outcome, tried, requests, okSeen, selectedSet,
          gemini429, thrown, meetings, toAnalyze, isInitialLoad, taskStorage,
          completedTasks, nextId, reply, present, meetingKey, tasksFile,
          completedFile, waited, decision, calls, inflight>>

callVars == <<retryCount, response>>
ledgerVars == <<present, meetingKey, decision, meetings, taskStorage, completedTasks,
               tasksFile, completedFile, nextId>>
routeVars == <<toAnalyze, isInitialLoad>>
histVars == <<tried, requests, okSeen, selectedSet, gemini429>>
concurrentVars == <<calls, inflight>>

(***************************************************************************)
(* Credentials                                                             *)
(***************************************************************************)
NoInstance == [created |-> FALSE, apiKeys |-> <<>>, currentKeyIndex |-> 0]

\* AIProviderManager.hasValidApiKeys: any slot holds a non-empty string
hasValidApiKeys(name) ==
  /\ name \in Providers
  /\ \E s \in Slots : env[name][s] # "none"

RECURSIVE ScanSlots(_, _)
ScanSlots(e, s) ==
  IF s > NumSlots THEN <<>>
  ELSE (IF e[s] = "key" THEN <<s>> ELSE <<>>) \o ScanSlots(e, s + 1)

\* <Provider>.getApiKeys in the constructor: slots whose trimmed value is non-empty
getApiKeys(name) == ScanSlots(env[name], 1)

\* AIProviderManager._createProvider: the cached instance, or a new one
CreatedInstance(name) ==
  IF providers[name].created THEN providers[name]
  ELSE [created |-> TRUE, apiKeys |-> getApiKeys(name), currentKeyIndex |-> 0]

isConfigured(inst) == Len(inst.apiKeys) > 0

getCurrentApiKey(inst) ==
  IF Len(inst.apiKeys) = 0 THEN 0
  ELSE inst.apiKeys[(inst.currentKeyIndex % Len(inst.apiKeys)) + 1]

rotateDroppingKey(inst) ==
  IF Len(inst.apiKeys) > 1
  THEN [ok |-> TRUE, inst |-> [inst EXCEPT !.apiKeys = Tail(inst.apiKeys),
                                           !.currentKeyIndex = 0]]
  ELSE [ok |-> FALSE, inst |-> inst]

rotateWithoutWrap(inst) ==
  IF Len(inst.apiKeys) > 1
  THEN [ok |-> TRUE,
        inst |-> [inst EXCEPT !.currentKeyIndex = inst.currentKeyIndex + 1]]
  ELSE [ok |-> FALSE, inst |-> inst]

rotateApiKey(inst) ==
  IF Len(inst.apiKeys) > 1
  THEN [ok |-> TRUE,
        inst |-> [inst EXCEPT !.currentKeyIndex =
                    (inst.currentKeyIndex + 1) % Len(inst.apiKeys)]]
  ELSE [ok |-> FALSE, inst |-> inst]

(***************************************************************************)
(* getWorkingProvider                                                      *)
(***************************************************************************)
orderWithoutPreferred(pref) == <<"gemini", "openai", "claude">>

\* [preferredProvider, 'gemini', 'openai', 'claude'].filter(Boolean)
fallbackOrder(pref) ==
  (IF pref = NoProvider THEN <<>> ELSE <<pref>>) \o <<"gemini", "openai", "claude">>

RECURSIVE Dedup(_, _)
Dedup(s, seen) ==
  IF s = <<>> THEN <<>>
  ELSE IF Head(s) \in seen THEN Dedup(Tail(s), seen)
       ELSE <<Head(s)>> \o Dedup(Tail(s), seen \cup {Head(s)})

uniqueProviders(pref) == Dedup(fallbackOrder(pref), {})

\* what <Provider>.test makes of the remote's answer: Gemini takes a 429 for a
\* valid key, OpenAI and Claude return response.ok
testVerdict(name, r) ==
  IF name = "gemini" THEN r \in {"ok", "s429"} ELSE r = "ok"

testSkippingConfigured(inst, name, r) == testVerdict(name, r)

\* <Provider>.test: false without a request when the instance holds no key
test(inst, name, r) == isConfigured(inst) /\ testVerdict(name, r)

(***************************************************************************)
(* executeWithFallback                                                     *)
(***************************************************************************)
NoResponse == [status |-> "none", bodyUsed |-> FALSE]
NoTasks == [array |-> FALSE, items |-> <<>>]
EmptyTasks == [array |-> TRUE, items |-> <<>>]
NoOutcome == [kind |-> "none", error |-> NoError, provider |-> NoProvider,
              tasks |-> NoTasks]
\* a caller with no call and no request under way
NoCall == [at |-> "idle", retryCount |-> 0, response |-> NoResponse]
NoRequest == [kind |-> "none", at |-> "idle", toAnalyze |-> {},
              isInitialLoad |-> FALSE, allMeetings |-> {}, newTasks |-> <<>>]
\* error.message.includes('rate limit') || error.message.includes('429')
isRateLimitError(err) == err = "Api429"

BackoffBase == 1000   \* ms
BackoffCap == 10000   \* ms

RECURSIVE Pow2(_)
Pow2(n) == IF n = 0 THEN 1 ELSE 2 * Pow2(n - 1)

\* Math.min(1000 * Math.pow(2, attempt), 10000)
waitTime(a) ==
  IF BackoffBase * Pow2(a) < BackoffCap THEN BackoffBase * Pow2(a) ELSE BackoffCap

keepFirstError(prev, err) == IF prev = NoError THEN err ELSE prev

\* the catch block's lastError = error
caughtError(prev, err) == err

\* for (attempt ...) { try { provider = await this.getWorkingProvider(...)
EnterAttempt ==
  /\ pc' = "select"
  /\ candIdx' = 1
  /\ working' = NoProvider
  /\ tried' = <<>>

\* getWorkingProvider or operation(provider) throws inside the try block
Throw(err) ==
  /\ pc' = "caught"
  /\ thrown' = err
  /\ UNCHANGED <<attempt, lastError, waited, candIdx, working, outcome, tried>>

\* return await operation(provider)
ReturnValue(tasks) ==
  /\ pc' = "route"
  /\ outcome' = [kind |-> "returned", error |-> NoError, provider |-> working,
                 tasks |-> tasks]
  /\ UNCHANGED <<attempt, lastError, waited, candIdx, working, tried, thrown>>

\* the catch block of executeWithFallback: the next attempt, or after the last
\* one throw lastError
CatchError ==
  /\ pc = "caught"
  /\ lastError' = caughtError(lastError, thrown)
  \* await new Promise(resolve => setTimeout(resolve, waitTime)), if rate-limited
  /\ waited' = IF isRateLimitError(thrown) THEN waitTime(attempt) ELSE 0
  /\ IF attempt = maxRetries
     THEN /\ pc' = "route"
          /\ outcome' = [kind |-> "raised", error |-> lastError',
                         provider |-> NoProvider, tasks |-> NoTasks]
          /\ UNCHANGED <<attempt, candIdx, working, tried, thrown, callVars,
                         requests>>
     ELSE /\ attempt' = attempt + 1
          /\ EnterAttempt
          /\ thrown' = NoError
          /\ retryCount' = 0
          /\ response' = NoResponse
          /\ requests' = 0
          /\ UNCHANGED outcome
  /\ UNCHANGED <<env, providers, op, preferred, okSeen, selectedSet, gemini429,
                 ledgerVars, routeVars, reply>>
  /\ UNCHANGED concurrentVars

\* one pass of getWorkingProvider's loop over uniqueProviders
TryCandidate(r) ==
  /\ pc = "select"
  /\ candIdx <= Len(uniqueProviders(preferred))
  /\ LET name == uniqueProviders(preferred)[candIdx] IN
     IF name \notin Providers
     THEN \* _createProvider throws, the catch continues
          /\ tried' = Append(tried, <<name, "error">>)
          /\ candIdx' = candIdx + 1
          /\ UNCHANGED <<providers, pc, working, selectedSet, gemini429>>
     ELSE LET inst == CreatedInstance(name)
              asked == hasValidApiKeys(name) /\ isConfigured(inst)
              verdict == IF ~hasValidApiKeys(name) THEN "skipped"
                         ELSE IF test(inst, name, r) THEN "ok" ELSE "failed"
          IN /\ providers' = [providers EXCEPT ![name] = inst]
             /\ tried' = Append(tried, <<name, verdict>>)
             /\ gemini429' = (gemini429 /\ (name = "gemini" /\ asked => r = "s429"))
             /\ IF verdict = "ok"
                THEN /\ working' = name
                     /\ pc' = "invoke"
                     /\ selectedSet' = selectedSet \cup {name}
                     /\ UNCHANGED candIdx
                ELSE /\ candIdx' = candIdx + 1
                     /\ UNCHANGED <<pc, working, selectedSet>>
  /\ UNCHANGED <<env, op, preferred, attempt, lastError, waited, outcome, callVars,
                 requests, okSeen, thrown, ledgerVars, routeVars, reply>>
  /\ UNCHANGED concurrentVars

rethrowCandidateError(tr) ==
  IF \E i \in 1..Len(tr) : tr[i][2] = "error" THEN "UnknownProvider"
  ELSE "NoWorkingProvider"

\* what getWorkingProvider throws after the loop, whatever the candidates did:
\* new Error('No working AI provider available. ...')
exhaustedError(tr) == "NoWorkingProvider"

\* the loop over uniqueProviders ends without a return
NoWorkingProvider ==
  /\ pc = "select"
  /\ candIdx > Len(uniqueProviders(preferred))
  /\ Throw(exhaustedError(tried))
  /\ UNCHANGED <<env, providers, op, preferred, callVars, requests, okSeen,
                 selectedSet, gemini429, ledgerVars, routeVars, reply>>
  /\ UNCHANGED concurrentVars

(***************************************************************************)
(* Provider calls                                                          *)
(***************************************************************************)
\* const maxRetries = this.apiKeys.length * 2
maxInner(inst) == Len(inst.apiKeys) * KeyTwice

\* the number of tasks in an answer: up to MaxAiTasks, or one more than the
\* "En fazla 8 kritik görev" the prompt asks for
AnswerSizes == (0..MaxAiTasks) \cup {TaskLimit + 1}

\* what parseImportantTasksResult can make of an ok answer: result.tasks || []
\* is an array of up to MaxAiTasks tasks, or some other JSON value
\* (its tasks name the newest of the meetings sent)
AiTask(i, m) == [title |-> <<"ai", i>>, meeting |-> m, priority |-> "medium",
                 isUrgent |-> FALSE, score |-> 0]
Newest(ms) == CHOOSE m \in ms : \A n \in ms : n <= m
AiAnswers(ms) ==
  {NoTasks} \cup
  {[array |-> TRUE, items |-> [i \in 1..k |-> AiTask(i, Newest(ms))]] :
     k \in AnswerSizes}

\* the answer may number its tasks itself: "id": 1, 2, ... (written 0 - i, apart
\* from the ids the routes make up)
NumberedAnswers(ms) ==
  {[array |-> TRUE,
    items |-> [i \in 1..k |-> [id |-> 0 - i] @@ AiTask(i, Newest(ms))]] :
     k \in 1..MaxAiTasks}

retryPassNoCount(inst, rc, resp, r) ==
  [rc |-> rc, response |-> [status |-> r, bodyUsed |-> FALSE],
   inst |-> rotateApiKey(inst).inst, throw |-> NoError]

\* one pass of Gemini's while (retryCount < maxRetries) loop whose fetch was not
\* answered ok: the new retryCount, response and instance, and the error the pass
\* throws out of the loop, if any
retryPass(inst, rc, resp, r) ==
  LET max == maxInner(inst)
      \* catch (fetchError)
      caught(rcNow, respNow, err) ==
        IF rcNow = max - 1
        THEN [rc |-> rcNow, response |-> respNow, inst |-> inst, throw |-> err]
        ELSE [rc |-> rcNow + 1, response |-> respNow, inst |-> inst, throw |-> NoError]
  IN CASE r = "neterr" -> caught(rc, resp, "NetworkError")
       [] r = "s500" -> caught(rc, [status |-> "s500", bodyUsed |-> TRUE], "Api500")
       [] r = "s429" ->
            LET rot == rotateApiKey(inst) IN
            IF rot.ok
            THEN [rc |-> rc + 1, response |-> [status |-> "s429", bodyUsed |-> FALSE],
                  inst |-> rot.inst, throw |-> NoError]
            ELSE IF rc + 1 < max
                 THEN [rc |-> rc + 1,
                       response |-> [status |-> "s429", bodyUsed |-> FALSE],
                       inst |-> inst, throw |-> NoError]
                 ELSE caught(rc + 1, [status |-> "s429", bodyUsed |-> TRUE], "Api429")

\* operation(provider): the call starts; OpenAI and Claude send their one request
InvokeOperation(r) ==
  /\ pc = "invoke"
  /\ LET inst == providers[working] IN
     CASE working = "gemini" /\ ~isConfigured(inst) ->
            /\ requests' = 0
            /\ IF op \in {"ask", "analyze"}
               THEN Throw("NotConfigured")
               ELSE ReturnValue(EmptyTasks)
            /\ UNCHANGED <<callVars, okSeen, gemini429>>
       [] working = "gemini" /\ isConfigured(inst) /\ op = "analyze" ->
            \* GeminiProvider.analyzeMeeting: one request, errors rethrown
            /\ requests' = 1
            /\ okSeen' = (okSeen \/ r = "ok")
            /\ gemini429' = (gemini429 /\ r = "s429")
            /\ CASE r = "ok" ->
                      \E ans \in AiAnswers(toAnalyze) \cup NumberedAnswers(toAnalyze) :
                        ReturnValue(ans)
                 [] r = "s429" -> Throw("Api429")
                 [] r = "s500" -> Throw("Api500")
                 [] r = "neterr" -> Throw("NetworkError")
            /\ UNCHANGED callVars
       [] working = "gemini" /\ isConfigured(inst) /\ op # "analyze" ->
            /\ pc' = IF op = "ask" THEN "geminiAsk" ELSE "geminiExtract"
            /\ retryCount' = 0
            /\ response' = NoResponse
            /\ requests' = 0
            /\ UNCHANGED <<attempt, lastError, waited, candIdx, working, outcome, tried,
                           okSeen, gemini429, thrown>>
       [] working # "gemini" /\ op # "ask" ->
            \* BaseAIProvider.extractImportantTasks, BaseAIProvider.analyzeMeeting
            /\ requests' = 0
            /\ Throw("NotImplemented")
            /\ UNCHANGED <<callVars, okSeen, gemini429>>
       [] working # "gemini" /\ op = "ask" /\ ~isConfigured(inst) ->
            /\ requests' = 0
            /\ Throw("NotConfigured")
            /\ UNCHANGED <<callVars, okSeen, gemini429>>
       [] working # "gemini" /\ op = "ask" /\ isConfigured(inst) ->
            /\ requests' = 1
            /\ okSeen' = (okSeen \/ r = "ok")
            /\ CASE r = "ok" -> ReturnValue(NoTasks)
                 [] r = "s429" -> Throw("Api429")
                 [] r = "s500" -> Throw("Api500")
                 [] r = "neterr" -> Throw("NetworkError")
            /\ UNCHANGED <<callVars, gemini429>>
  /\ UNCHANGED <<env, providers, op, preferred, selectedSet, ledgerVars, routeVars,
                 reply>>
  /\ UNCHANGED concurrentVars

\* GeminiProvider.askQuestion: one request of the retry loop and, when the loop
\* ends with it, the rest of the call
GeminiAskStep(r) ==
  /\ pc = "geminiAsk"
  /\ retryCount < maxInner(providers["gemini"])
  /\ requests' = requests + 1
  /\ okSeen' = (okSeen \/ r = "ok")
  /\ gemini429' = (gemini429 /\ r = "s429")
  /\ IF r = "ok"
     THEN \* break; data = await response.json(); return { answer, ... }
          /\ response' = [status |-> "ok", bodyUsed |-> TRUE]
          /\ ReturnValue(NoTasks)
          /\ UNCHANGED <<retryCount, providers>>
     ELSE LET p == retryPass(providers["gemini"], retryCount, response, r) IN
          /\ retryCount' = p.rc
          /\ providers' = [providers EXCEPT !["gemini"] = p.inst]
          /\ IF p.throw # NoError
             THEN /\ response' = p.response
                  /\ Throw(p.throw)
             ELSE IF p.rc < maxInner(p.inst)
             THEN /\ response' = p.response
                  /\ UNCHANGED <<pc, attempt, lastError, waited, candIdx, working, outcome,
                                 tried, thrown>>
             ELSE \* the loop ends without a break: await response.json() reads
                  \* the last response, and throws if its body was read before
                  /\ response' = [p.response EXCEPT !.bodyUsed = TRUE]
                  /\ IF p.response.bodyUsed
                     THEN Throw("BodyUsed")
                     ELSE ReturnValue(NoTasks)
  /\ UNCHANGED <<env, op, preferred, selectedSet, ledgerVars, routeVars, reply>>
  /\ UNCHANGED concurrentVars

\* GeminiProvider.extractImportantTasks: one request of the retry loop; every
\* error, thrown by a pass or after the loop, is caught and an empty result returned
GeminiExtractStep(r) ==
  /\ pc = "geminiExtract"
  /\ retryCount < maxInner(providers["gemini"])
  /\ requests' = requests + 1
  /\ okSeen' = (okSeen \/ r = "ok")
  /\ gemini429' = (gemini429 /\ r = "s429")
  /\ IF r = "ok"
     THEN /\ response' = [status |-> "ok", bodyUsed |-> TRUE]
          /\ \E ans \in AiAnswers(toAnalyze) \cup NumberedAnswers(toAnalyze) :
               ReturnValue(ans)
          /\ UNCHANGED <<retryCount, providers>>
     ELSE LET p == retryPass(providers["gemini"], retryCount, response, r) IN
          /\ retryCount' = p.rc
          /\ providers' = [providers EXCEPT !["gemini"] = p.inst]
          /\ response' = p.response
          /\ IF p.throw = NoError /\ p.rc < maxInner(p.inst)
             THEN UNCHANGED <<pc, attempt, lastError, waited, candIdx, working, outcome,
                              tried, thrown>>
             ELSE ReturnValue(EmptyTasks)
  /\ UNCHANGED <<env, op, preferred, selectedSet, ledgerVars, routeVars, reply>>
  /\ UNCHANGED concurrentVars

(***************************************************************************)
(* Heuristic task extraction (the text-analysis fallback of important-tasks)*)
(***************************************************************************)
Max(a, b) == IF a > b THEN a ELSE b
Min(a, b) == IF a < b THEN a ELSE b

\* a sentence of a decision text: its trimmed length, how many keywords of each
\* list it contains, whether one of taskPatterns matches it, how many characters
\* at its start /^\d+[-.\ s]*/ matches (lead) and how many white-space characters
\* its first 60 characters end with (gap)
Sentence(len, u, d, act, rout) ==
  [len |-> len, urgent |-> u, deadline |-> d, important |-> 0, responsibility |-> 0,
   assignment |-> 0, action |-> act, teacher |-> 0, routine |-> rout,
   pattern |-> FALSE, lead |-> 0, gap |-> 0]

\* the decision texts of the repository's meetings: odd meetings hold "Ara sinav 15
\* Mart tarihine kadar hazirlanacak, acil", even ones a plain sentence about a
\* "ders" and a fragment too short to be analysed
Decision(m) ==
  IF m % 2 = 1 THEN <<Sentence(53, 1, 1, 1, 0)>>
  ELSE <<Sentence(24, 0, 0, 1, 1), Sentence(9, 0, 0, 0, 0)>>

\* the texts a meeting's decision is drawn from: the two above, no sentence at
\* all, "Rapor yapilacak" (15 characters) followed by a sentence of 75 characters
\* with a deadline, and an agenda of five sentences, the second one numbered
\* ("2- ...") and the third one the sentence of 75 characters
DecisionTexts ==
  {Decision(1), Decision(2), <<>>,
   <<Sentence(15, 0, 0, 1, 0), Sentence(75, 0, 1, 0, 0)>>,
   <<Sentence(53, 1, 1, 1, 0), [Sentence(40, 1, 0, 1, 0) EXCEPT !.lead = 3],
     [Sentence(75, 0, 1, 0, 0) EXCEPT !.gap = 1], Sentence(24, 0, 0, 1, 1),
     Sentence(30, 1, 0, 0, 0)>>}

MinSentenceLength == 15
TitleLimit == 60
EllipsisLength == 3

\* .filter(sentence => sentence.trim().length > 15), then
\* if (cleanSentence.length < 15) return
isAnalysed(s) == s.len > MinSentenceLength /\ ~(s.len < MinSentenceLength)

importanceScore(s) ==
  LET weighted == 1 + s.urgent * 4 + s.deadline * 3 + s.important * 2
                    + s.responsibility * 2 + s.assignment * 2 + s.action * 1
                    + s.teacher * 1
      reduced == IF s.routine > 0 /\ s.urgent = 0 /\ s.deadline = 0
                 THEN Max(0, weighted - 1) ELSE weighted
  IN reduced + (IF s.pattern THEN 1 ELSE 0)

priorityWithLowerBar(score) ==
  IF score >= 5 THEN "high" ELSE IF score >= 4 THEN "medium" ELSE "low"

priorityOf(score) ==
  IF score >= 6 THEN "high" ELSE IF score >= 4 THEN "medium" ELSE "low"

isUrgentOf(score) == score >= 6

priorityOrder(p) == CASE p = "high" -> 3 [] p = "medium" -> 2 [] OTHER -> 1

\* title = cleanSentence.substring(0, 60).trim(); '...' appended when the sentence
\* is longer; then title.replace(/^\d+[-.\ s]*/, '').trim(): the title's length
titleLength(s) ==
  LET cut == Min(s.len, TitleLimit) - (IF s.len > TitleLimit THEN s.gap ELSE 0)
      dotted == cut + (IF s.len > TitleLimit THEN EllipsisLength ELSE 0)
  IN dotted - Min(s.lead, cut)

keepsArrivalOrder(a, b) == FALSE

\* the comparator of allTasks.sort: a goes before b
Before(a, b) ==
  IF a.score # b.score THEN a.score > b.score
  ELSE IF a.isUrgent # b.isUrgent THEN a.isUrgent
  ELSE priorityOrder(a.priority) > priorityOrder(b.priority)

RECURSIVE InsertSorted(_, _)
InsertSorted(sorted, t) ==
  IF sorted = <<>> THEN <<t>>
  ELSE IF Before(t, Head(sorted)) THEN <<t>> \o sorted
       ELSE <<Head(sorted)>> \o InsertSorted(Tail(sorted), t)

\* Array.prototype.sort is stable
RECURSIVE SortTasks(_)
SortTasks(ts) ==
  IF ts = <<>> THEN <<>>
  ELSE InsertSorted(SortTasks(SubSeq(ts, 1, Len(ts) - 1)), ts[Len(ts)])

RECURSIVE SentenceTasks(_, _)
SentenceTasks(m, i) ==
  IF i > Len(decision[m]) THEN <<>>
  ELSE LET s == decision[m][i]
           score == importanceScore(s)
       IN (IF isAnalysed(s) /\ score >= 1
           THEN <<[title |-> <<"text", m, i>>, titleLength |-> titleLength(s),
                   meeting |-> m,
                   priority |-> priorityOf(score), isUrgent |-> isUrgentOf(score),
                   score |-> score]>>
           ELSE <<>>) \o SentenceTasks(m, i + 1)

\* meetingsWithRevisions is sorted by date, newest first; meetings are numbered
\* in the order of their dates
RECURSIVE AllTasks(_, _)
AllTasks(ms, m) ==
  IF m < 1 THEN <<>>
  ELSE (IF m \in ms THEN SentenceTasks(m, 1) ELSE <<>>) \o AllTasks(ms, m - 1)

HeuristicTasks(ms) == SortTasks(AllTasks(ms, NumMeetings))

(***************************************************************************)
(* The routes POST /ask and GET /important-tasks                           *)
(***************************************************************************)
NoReply == [kind |-> "none", method |-> "none", provider |-> NoProvider]

anyKeyAssumed == TRUE

\* ['gemini', 'openai', 'claude'].some(name => hasValidApiKeys(name))
hasAnyApiKeys == \E p \in Providers : hasValidApiKeys(p)

\* the route calls AIProviderManager.executeWithFallback(operation, provider)
StartOperation(o, pref) ==
  /\ op' = o
  /\ preferred' = pref
  /\ attempt' = 1
  /\ lastError' = NoError
  /\ waited' = 0
  /\ outcome' = NoOutcome
  /\ EnterAttempt
  /\ requests' = 0
  /\ okSeen' = FALSE
  /\ selectedSet' = {}
  /\ gemini429' = TRUE
  /\ thrown' = NoError
  /\ UNCHANGED callVars

\* the route answers without running an operation
ReplyAtOnce(kind, method) ==
  /\ reply' = [kind |-> kind, method |-> method, provider |-> NoProvider]
  /\ pc' = "done"
  /\ UNCHANGED <<op, preferred, attempt, lastError, waited, candIdx, working, outcome,
                 thrown, callVars, histVars>>

ReceiveAsk(pref) ==
  /\ pc = "idle"
  /\ IF ~hasAnyApiKeys
     THEN ReplyAtOnce("needsApiKey", "none")
     ELSE StartOperation("ask", pref) /\ UNCHANGED reply
  /\ UNCHANGED <<env, providers, ledgerVars, routeVars>>
  /\ UNCHANGED concurrentVars

ReplyAsk ==
  /\ pc = "route"
  /\ op = "ask"
  /\ pc' = "done"
  /\ reply' = IF outcome.kind = "returned"
              THEN [kind |-> "answer", method |-> "none", provider |-> outcome.provider]
              ELSE [kind |-> "error", method |-> "none", provider |-> NoProvider]
  /\ UNCHANGED <<env, providers, op, preferred, attempt, lastError, waited, candIdx, working,
                 outcome, thrown, callVars, histVars, ledgerVars, routeVars>>
  /\ UNCHANGED concurrentVars

ReceiveImportantTasks(pref) ==
  /\ pc = "idle"
  /\ LET allMeetings == present
         unanalyzedMeetings == {m \in allMeetings : ~meetings[m]}
     IN
     IF ~hasAnyApiKeys
     THEN ReplyAtOnce("needsApiKey", "none") /\ UNCHANGED routeVars
     ELSE IF allMeetings = {}
     THEN ReplyAtOnce("tasks", "none") /\ UNCHANGED routeVars
     ELSE IF taskStorage = <<>>
     THEN /\ toAnalyze' = allMeetings
          /\ isInitialLoad' = TRUE
          /\ StartOperation("extract", pref)
          /\ UNCHANGED reply
     ELSE IF unanalyzedMeetings # {}
     THEN /\ toAnalyze' = unanalyzedMeetings
          /\ isInitialLoad' = FALSE
          /\ StartOperation("extract", pref)
          /\ UNCHANGED reply
     ELSE ReplyAtOnce("tasks", "cached") /\ UNCHANGED routeVars
  /\ UNCHANGED <<env, providers, ledgerVars>>
  /\ UNCHANGED concurrentVars

\* if (!task.id) task.id = `ai-task-${timestamp}-${counter}-${randomSuffix}`
WithIds(ts, from) == [i \in 1..Len(ts) |-> ts[i] @@ [id |-> from + i]]

Titles(ts) == {ts[i].title : i \in 1..Len(ts)}

\* taskStorage after the route took newTasks in
mergeNew(stored, newTasks, initial) ==
  IF initial THEN newTasks
  ELSE stored \o SelectSeq(newTasks, LAMBDA t : t.title \notin Titles(stored))

\* if (aiResult && aiResult.tasks && Array.isArray(aiResult.tasks))
aiSucceeded(o) == o.kind = "returned" /\ o.tasks.array

\* what the route makes of the outcome of executeWithFallback: the tasks of the
\* AI answer with their ids, or the sorted candidates of the text analysis, cut
\* to the first 8
extracted(o, analysed, from) ==
  LET ai == aiSucceeded(o)
      found == IF ai THEN o.tasks.items ELSE AllTasks(analysed, NumMeetings)
      ranked == IF ai THEN WithIds(found, from) ELSE SortTasks(WithIds(found, from))
  IN [ai |-> ai, found |-> Len(found),
      newTasks |-> SubSeq(ranked, 1, Min(Len(ranked), TaskLimit))]

marksOnlyNewMeetings(all, analysed, initial) ==
  [m \in Meetings |-> meetings[m] \/ (~initial /\ m \in present /\ m \in analysed)]

\* task_analyzed = true for the meetings analysed or, on the initial load, for
\* all of allMeetings, each looked up in db.data.meetings by its id
markAnalyzed(all, analysed, initial) ==
  [m \in Meetings |->
     meetings[m] \/ (m \in present /\ m \in (IF initial THEN all ELSE analysed))]

\* the rest of GET /important-tasks once executeWithFallback has returned or
\* thrown: the AI branch, or the text analysis
FinishImportantTasks ==
  /\ pc = "route"
  /\ op = "extract"
  /\ LET result == extracted(outcome, toAnalyze, nextId)
     IN /\ meetings' = markAnalyzed(present, toAnalyze, isInitialLoad)
        /\ taskStorage' = mergeNew(taskStorage, result.newTasks, isInitialLoad)
        \* saveTasks() on the initial load, and when something was appended
        /\ tasksFile' = IF isInitialLoad \/ taskStorage' # taskStorage
                        THEN taskStorage' ELSE tasksFile
        /\ nextId' = nextId + result.found
        /\ reply' = [kind |-> "tasks", method |-> IF result.ai THEN "ai" ELSE "text",
                     provider |-> outcome.provider]
  /\ pc' = "done"
  /\ UNCHANGED <<env, providers, op, preferred, attempt, lastError, waited, candIdx, working,
                 outcome, thrown, callVars, histVars, completedTasks, routeVars,
                 present, meetingKey, decision, completedFile>>
  /\ UNCHANGED concurrentVars

\* POST /analyze with body { meetingId, provider }; meetingId 0 is a body
\* without one
ReceiveAnalyze(m, pref) ==
  /\ pc = "idle"
  /\ nextId < MaxIssued
  /\ IF m = 0
     THEN ReplyAtOnce("badRequest", "none") /\ UNCHANGED routeVars
     ELSE IF ~hasAnyApiKeys
     THEN ReplyAtOnce("needsApiKey", "none") /\ UNCHANGED routeVars
     ELSE IF m \notin present
     THEN ReplyAtOnce("notFound", "none") /\ UNCHANGED routeVars
     ELSE /\ toAnalyze' = {m}
          /\ isInitialLoad' = FALSE
          /\ StartOperation("analyze", pref)
          /\ UNCHANGED reply
  /\ UNCHANGED <<env, providers, ledgerVars>>
  /\ UNCHANGED concurrentVars

\* POST /analyze: tasksWithIds.filter(task => !existingTaskIds.includes(task.id))
mergeAnalysis(stored, newTasks) ==
  stored \o SelectSeq(newTasks,
                      LAMBDA t : \A i \in 1..Len(stored) : stored[i].id # t.id)

\* the rest of POST /analyze once executeWithFallback has returned or thrown
FinishAnalyze ==
  /\ pc = "route"
  /\ op = "analyze"
  /\ IF outcome.kind = "raised"
     THEN /\ reply' = [kind |-> "error", method |-> "none", provider |-> NoProvider]
          /\ UNCHANGED <<taskStorage, tasksFile, nextId>>
     ELSE LET found == IF outcome.tasks.array THEN outcome.tasks.items ELSE <<>>
              m == CHOOSE x \in toAnalyze : TRUE
              \* { ...task, meetingDate: meeting.date, meetingTopic: meeting.topic }
              tasksWithIds == [i \in 1..Len(found) |->
                                 [WithIds(found, nextId)[i] EXCEPT !.meeting = m]]
          IN /\ taskStorage' = mergeAnalysis(taskStorage, tasksWithIds)
             /\ tasksFile' = IF taskStorage' # taskStorage
                             THEN taskStorage' ELSE tasksFile
             /\ nextId' = nextId + Len(found)
             /\ reply' = [kind |-> "analysis", method |-> "ai",
                          provider |-> outcome.provider]
  /\ pc' = "done"
  /\ UNCHANGED <<env, providers, op, preferred, attempt, lastError, waited, candIdx, working,
                 outcome, thrown, callVars, histVars, routeVars, present, meetingKey, decision,
                 meetings, completedTasks, completedFile>>
  /\ UNCHANGED concurrentVars

\* POST /meetings with body { date, topic, decision, ... }: the meeting is stored
\* with the next id, then the automatic analysis starts, with no look at the keys
ReceiveCreateMeeting(key, complete) ==
  /\ pc = "idle"
  /\ nextId < MaxIssued
  /\ LET newMeeting == IF present = {} THEN 1 ELSE Newest(present) + 1 IN
     /\ newMeeting \in Meetings
     /\ key \in MeetingKeys(newMeeting)
     /\ IF ~complete
        THEN /\ ReplyAtOnce("badRequest", "none")
             /\ UNCHANGED <<routeVars, present, meetingKey, decision, meetings>>
        ELSE /\ present' = present \cup {newMeeting}
             /\ meetingKey' = [meetingKey EXCEPT ![newMeeting] = key]
             /\ decision' = [decision EXCEPT ![newMeeting] = Decision(newMeeting)]
             /\ meetings' = [meetings EXCEPT ![newMeeting] = FALSE]
             /\ toAnalyze' = {newMeeting}
             /\ isInitialLoad' = FALSE
             /\ StartOperation("auto", NoProvider)
             /\ UNCHANGED reply
  /\ UNCHANGED <<env, providers, taskStorage, completedTasks, tasksFile,
                 completedFile, nextId>>
  /\ UNCHANGED concurrentVars

\* the rest of POST /meetings: the tasks of the answer, if it has any, are taken
\* in and appended to tasks.json; any error of the analysis is swallowed
FinishCreateMeeting ==
  /\ pc = "route"
  /\ op = "auto"
  /\ IF aiSucceeded(outcome) /\ Len(outcome.tasks.items) > 0
     THEN LET tasksWithIds == WithIds(outcome.tasks.items, nextId)
              uniqueNewTasks ==
                SelectSeq(tasksWithIds, LAMBDA t : t.title \notin Titles(taskStorage))
          IN /\ meetings' = [m \in Meetings |-> meetings[m] \/ m \in toAnalyze]
             /\ taskStorage' = taskStorage \o uniqueNewTasks
             \* currentTasks = JSON.parse(tasks.json); push; writeFileSync
             /\ tasksFile' = tasksFile \o uniqueNewTasks
             /\ nextId' = nextId + Len(tasksWithIds)
     ELSE UNCHANGED <<meetings, taskStorage, tasksFile, nextId>>
  /\ reply' = [kind |-> "created", method |-> "none", provider |-> outcome.provider]
  /\ pc' = "done"
  /\ UNCHANGED <<env, providers, op, preferred, attempt, lastError, waited, candIdx, working,
                 outcome, thrown, callVars, histVars, routeVars, present, meetingKey, decision,
                 completedTasks, completedFile>>
  /\ UNCHANGED concurrentVars

\* GET /providers: getAvailableProviders creates every provider's instance
ListProviders ==
  /\ pc = "idle"
  /\ \E p \in Providers : ~providers[p].created
  /\ providers' = [p \in Providers |-> CreatedInstance(p)]
  /\ UNCHANGED <<env, pc, op, preferred, attempt, lastError, waited, candIdx, working,
                 outcome, thrown, callVars, histVars, ledgerVars, routeVars, reply>>
  /\ UNCHANGED concurrentVars

\* the handler returns: the request's locals are gone, the module's state stays
EndRequest ==
  /\ pc = "done"
  /\ pc' = "idle"
  /\ op' = "none"
  /\ preferred' = NoProvider
  /\ attempt' = 1
  /\ lastError' = NoError
  /\ waited' = 0
  /\ candIdx' = 1
  /\ working' = NoProvider
  /\ retryCount' = 0
  /\ response' = NoResponse
  /\ outcome' = NoOutcome
  /\ tried' = <<>>
  /\ requests' = 0
  /\ okSeen' = FALSE
  /\ selectedSet' = {}
  /\ gemini429' = TRUE
  /\ thrown' = NoError
  /\ toAnalyze' = {}
  /\ isInitialLoad' = FALSE
  /\ reply' = NoReply
  /\ UNCHANGED <<env, providers, ledgerVars>>
  /\ UNCHANGED concurrentVars

(***************************************************************************)
(* The specification of the orchestrated requests                          *)
(***************************************************************************)
\* the environment at start-up: a provider has no key, a lone base key that is
\* only white space, or keys in its first slots: up to MaxKeys for Gemini, whose
\* calls rotate them, one for OpenAI and Claude, whose calls only read the current
EnvOf(n, blank) ==
  [s \in Slots |-> IF s <= n THEN (IF blank THEN "blank" ELSE "key") ELSE "none"]
StartEnvs(name) ==
  {EnvOf(n, FALSE) : n \in 0..(IF name = "gemini" THEN MaxKeys ELSE 1)}
    \cup {EnvOf(1, TRUE)}

\* no extraction has touched the ledger yet
LedgerFresh == taskStorage = <<>> /\ \A m \in Meetings : ~meetings[m]

\* the ledger at start-up: empty with no meeting analysed, or one task taken from
\* the first meeting while the later meetings are not analysed yet
SeedTask == [id |-> 1] @@ AiTask(1, 1)

Init ==
  /\ \E g \in StartEnvs("gemini"), o \in StartEnvs("openai"), c \in StartEnvs("claude") :
       env = [p \in Providers |->
                IF p = "gemini" THEN g ELSE IF p = "openai" THEN o ELSE c]
  /\ providers = [p \in Providers |-> NoInstance]
  /\ pc = "idle"
  /\ op = "none"
  /\ preferred = NoProvider
  /\ attempt = 1
  /\ lastError = NoError
  /\ waited = 0
  /\ candIdx = 1
  /\ working = NoProvider
  /\ retryCount = 0
  /\ response = NoResponse
  /\ outcome = NoOutcome
  /\ tried = <<>>
  /\ requests = 0
  /\ okSeen = FALSE
  /\ selectedSet = {}
  /\ gemini429 = TRUE
  /\ thrown = NoError
  /\ \E seeded \in BOOLEAN :
       /\ meetings = [m \in Meetings |-> seeded /\ m = 1]
       /\ taskStorage = IF seeded THEN <<SeedTask>> ELSE <<>>
       /\ nextId = IF seeded THEN 1 ELSE 0
  /\ present = Meetings
  /\ meetingKey = [m \in Meetings |-> m]
  /\ decision = [m \in Meetings |-> Decision(m)]
  /\ toAnalyze = {}
  /\ isInitialLoad = FALSE
  /\ completedTasks = <<>>
  /\ tasksFile = taskStorage
  /\ completedFile = completedTasks
  /\ reply = NoReply
  /\ calls = [i \in Callers |-> NoCall]
  /\ inflight = [i \in Callers |-> NoRequest]

AllCreated == \A p \in Providers : providers[p].created

\* The client lists the providers before it asks or extracts. POST /ask reads
\* nothing of the ledger: its requests are explored while the ledger is fresh.
Next ==
  \/ ListProviders
  \/ AllCreated /\ LedgerFresh /\ \E pref \in PreferredValues : ReceiveAsk(pref)
  \/ AllCreated /\ \E pref \in PreferredValues : ReceiveImportantTasks(pref)
  \/ \E r \in Responses : TryCandidate(r)
  \/ NoWorkingProvider
  \/ CatchError
  \/ \E r \in Responses : InvokeOperation(r)
  \/ \E r \in Responses : GeminiAskStep(r)
  \/ \E r \in Responses : GeminiExtractStep(r)
  \/ ReplyAsk
  \/ FinishImportantTasks
  \/ EndRequest

Spec == Init /\ [][Next]_vars

(***************************************************************************)
(* Properties of the orchestrated requests                                 *)
(***************************************************************************)
InCall == pc \in {"invoke", "geminiAsk", "geminiExtract"}
Verdicts(tr) == {tr[i][2] : i \in 1..Len(tr)}
PoolSize(p) == Len(providers[p].apiKeys)

\* C1: when the AI extraction does not succeed - no request of the operation was
\* answered ok, whether the attempts raised or not - the important-tasks request
\* is answered with the tasks of the text analysis, method "text".
C1_TextAnalysisWhenAiFails ==
  (pc = "done" /\ op = "extract" /\ reply.kind = "tasks" /\ ~okSeen)
    => reply.method = "text"

\* C2: the provider getWorkingProvider returned holds at least one key in its
\* pool, when it is selected and for as long as the operation runs on it.
C2_SelectedPoolNonEmpty ==
  working # NoProvider =>
    /\ providers[working].created
    /\ Len(providers[working].apiKeys) >= 1
    /\ getCurrentApiKey(providers[working]) \in Slots

\* a provider whose only key is blank passes hasValidApiKeys, is passed over,
\* and a later candidate is selected
C2_Witness ==
  /\ InCall
  /\ \E i \in 1..Len(tried) :
       /\ tried[i][2] = "failed"
       /\ hasValidApiKeys(tried[i][1])
       /\ PoolSize(tried[i][1]) = 0

\* the candidates in the order the specification gives: the preferred provider,
\* then gemini, openai, claude, each once
ExpectedOrder(pref) ==
  CASE pref = NoProvider -> <<"gemini", "openai", "claude">>
    [] pref = "gemini" -> <<"gemini", "openai", "claude">>
    [] pref = "openai" -> <<"openai", "gemini", "claude">>
    [] pref = "claude" -> <<"claude", "gemini", "openai">>
    [] OTHER -> <<pref, "gemini", "openai", "claude">>

C4_EscalatesPastRateLimit ==
  (/\ pc = "route"
   /\ preferred = NoProvider
   /\ PoolSize("gemini") = 1
   /\ "gemini" \in selectedSet
   /\ requests >= 1
   /\ gemini429
   /\ \E p \in Providers \ {"gemini"} : hasValidApiKeys(p) /\ PoolSize(p) >= 1)
    => selectedSet # {"gemini"}

Running == {"select", "invoke", "geminiAsk", "geminiExtract", "caught"}

\* the steps executeWithFallback can still take: the attempts left, each worth a
\* whole getWorkingProvider loop, one call and its catch, and what is left of
\* the attempt that runs
StepsOfAttempt == Len(ExpectedOrder(preferred)) + KeyTwice * PoolSize("gemini") + 4
StepsLeft ==
  IF pc \notin Running THEN 0
  ELSE (maxRetries - attempt) * StepsOfAttempt +
       (CASE pc = "select" ->
               (Len(ExpectedOrder(preferred)) - candIdx + 1)
                 + KeyTwice * PoolSize("gemini") + 2
          [] pc = "invoke" -> KeyTwice * PoolSize("gemini") + 2
          [] pc \in {"geminiAsk", "geminiExtract"} ->
               KeyTwice * PoolSize("gemini") - retryCount + 1
          [] OTHER -> 1)

\* C5: executeWithFallback makes at most three attempts and terminates (every
\* step of a running operation lowers a natural-number measure); an attempt
\* follows only failed ones, the value returned is that of the attempt which did
\* not throw, and after three failures the error raised is the third attempt's.
C5_ThreeAttemptsThenLastError ==
  /\ [](/\ attempt \in 1..maxRetries
        /\ StepsLeft >= 0
        /\ attempt > 1 => lastError # NoError
        /\ (pc = "route" /\ outcome.kind = "returned") => thrown = NoError
        /\ (pc = "route" /\ outcome.kind = "raised") =>
             /\ attempt = maxRetries
             /\ thrown # NoError
             /\ outcome.error = thrown)
  /\ [][(pc \in Running) => (StepsLeft' < StepsLeft)]_vars

\* three attempts failed, the third on an error of the selected provider's call
C5_Witness ==
  /\ pc = "route"
  /\ outcome.kind = "raised"
  /\ attempt = maxRetries
  /\ working = "openai"
  /\ outcome.error = "Api500"

\* C6: a Gemini call with an inner retry loop sends at most twice as many
\* requests as the pool holds keys, whatever the responses, and the loop
\* terminates: every pass that stays in the loop raises retryCount, which the
\* loop bounds.
C6_InnerLoopBounded ==
  /\ [](working = "gemini" =>
          /\ requests <= 2 * PoolSize("gemini")
          /\ retryCount <= 2 * PoolSize("gemini") + 1)
  /\ [][(pc \in {"geminiAsk", "geminiExtract"} /\ pc' = pc) =>
          /\ retryCount' > retryCount
          /\ retryCount' < 2 * PoolSize("gemini")
          /\ requests' = requests + 1]_vars

\* a call on a pool of two keys that has sent its four requests
C6_Witness ==
  /\ working = "gemini"
  /\ PoolSize("gemini") = 2
  /\ requests = 2 * PoolSize("gemini")
  /\ pc \in {"route", "caught"}

\* C7: askQuestion returns an answer only if some request of the operation was
\* answered ok, and a Gemini call whose every request was answered 429 throws
\* an error the orchestrator takes for a rate limit.
C7_NoAnswerWithoutOk ==
  /\ (pc = "route" /\ op = "ask" /\ outcome.kind = "returned") => okSeen
  /\ (/\ pc = "caught"
      /\ op = "ask"
      /\ working = "gemini"
      /\ requests >= 1
      /\ gemini429) => isRateLimitError(thrown)

\* C8: when no candidate of a getWorkingProvider call passed - each unknown,
\* without a key, or failing its test - the call throws the "no working
\* provider" error after trying them all, and no operation is invoked and no
\* request sent; an operation only runs after a candidate passed.
C8_NoWorkingProviderError ==
  /\ (pc = "caught" /\ "ok" \notin Verdicts(tried)) =>
       /\ thrown = "NoWorkingProvider"
       /\ working = NoProvider
       /\ requests = 0
       /\ Len(tried) = Len(ExpectedOrder(preferred))
  /\ InCall => "ok" \in Verdicts(tried)
  /\ requests > 0 => "ok" \in Verdicts(tried)
  /\ thrown = "NoWorkingProvider" => "ok" \notin Verdicts(tried)

\* one candidate has no key, the others fail their tests, and the call throws
C8_Witness ==
  /\ pc = "caught"
  /\ thrown = "NoWorkingProvider"
  /\ Verdicts(tried) = {"skipped", "failed"}

\* C16: for each provider's pool, rotate() gives true and moves the cursor to
\* (cursor + 1) mod (pool size) when the pool holds more than one key, and gives
\* false and leaves the cursor alone when it holds one key or none; current()
\* is the key at the cursor (null for an empty pool).
C16_RotateAdvancesModuloPool ==
  /\ [](\A p \in Providers :
          LET inst == providers[p]
              n == Len(inst.apiKeys)
          IN /\ rotateApiKey(inst).ok = (n > 1)
             /\ n <= 1 => rotateApiKey(inst).inst = inst
             /\ n > 1 => rotateApiKey(inst).inst =
                           [inst EXCEPT !.currentKeyIndex = (inst.currentKeyIndex + 1) % n]
             /\ n = 0 => getCurrentApiKey(inst) = 0
             /\ n > 0 => /\ inst.currentKeyIndex \in 0..(n - 1)
                         /\ getCurrentApiKey(inst) =
                              inst.apiKeys[inst.currentKeyIndex + 1])
  /\ [][\A p \in Providers :
          LET inst == providers[p]
              n == Len(inst.apiKeys)
          IN (inst.created /\ providers'[p] # inst) =>
               /\ n > 1
               /\ providers'[p] =
                    [inst EXCEPT !.currentKeyIndex = (inst.currentKeyIndex + 1) % n]]_vars

\* the cursor of a pool of two keys has gone round: 0, 1 and back to 0
C16_Witness ==
  /\ pc \in {"geminiAsk", "geminiExtract"}
  /\ PoolSize("gemini") > 1
  /\ requests >= PoolSize("gemini")
  /\ response.status = "s429"
  /\ providers["gemini"].currentKeyIndex = 0

C23_BackoffOnlyBeforeRetry ==
  [][(pc = "caught" /\ pc' # "caught") =>
       /\ waited' = IF thrown = "Api429"
                    THEN (IF 1000 * 2^attempt < 10000 THEN 1000 * 2^attempt ELSE 10000)
                    ELSE 0
       /\ waited' <= 10000
       /\ waited' > 0 => (attempt' = attempt + 1 /\ pc' = "select")]_vars

\* C30: executeWithFallback never invokes on the provider getWorkingProvider
\* selected an operation its class does not implement: an analyze or extract
\* operation is only ever invoked on Gemini, the one class that implements
\* analyzeMeeting and extractImportantTasks.
C30_SelectedProviderImplementsOperation ==
  (pc = "invoke" /\ op \in {"extract", "analyze", "auto"}) => working = "gemini"

(***************************************************************************)
(* The ledger routes POST /complete-task and DELETE /completed-tasks/:taskId*)
(***************************************************************************)
\* the ids a request can name: those of the loaded tasks and one no task has
TaskIds == 1..(MaxLoaded + 1)
\* a request body without a taskId
NoTaskId == 0

\* the tasks of tasks.json at start-up come from the meetings in turn
LoadedTask(i) == AiTask(i, ((i - 1) % NumMeetings) + 1)

ActiveIds == {taskStorage[i].id : i \in 1..Len(taskStorage)}

\* completedTasks.findIndex(task => task.id === taskId), 0 for -1
findIndex(ts, taskId) ==
  IF \E i \in 1..Len(ts) : ts[i].id = taskId
  THEN CHOOSE i \in 1..Len(ts) :
         ts[i].id = taskId /\ \A j \in 1..(i - 1) : ts[j].id # taskId
  ELSE 0

\* the task object the client sends along with the id: the task as it is listed,
\* or for an id that is not listed the task as it was loaded
ClientTask(taskId) ==
  IF taskId \in ActiveIds THEN taskStorage[findIndex(taskStorage, taskId)]
  ELSE LoadedTask(taskId)

\* ts.splice(i, 1)
splice(ts, i) == SubSeq(ts, 1, i - 1) \o SubSeq(ts, i + 1, Len(ts))

LedgerReply(kind) == [kind |-> kind, method |-> "none", provider |-> NoProvider]

orchestratorVars == <<env, providers, pc, op, preferred, attempt, lastError, waited, candIdx,
                      working, retryCount, response, outcome, tried, requests,
                      okSeen, selectedSet, gemini429, thrown, toAnalyze,
                      isInitialLoad>>

\* POST /complete-task with body { taskId, task }; completedAt, the time of the
\* call, is left out of the entry
CompleteTask(taskId, hasTask) ==
  /\ pc = "idle"
  /\ Len(completedTasks) < MaxCompleted
  /\ IF taskId = NoTaskId \/ ~hasTask
     THEN /\ reply' = LedgerReply("badRequest")
          /\ UNCHANGED <<taskStorage, completedTasks, tasksFile, completedFile>>
     ELSE /\ completedTasks' =
               Append(completedTasks, [id |-> taskId] @@ ClientTask(taskId))
          /\ taskStorage' = SelectSeq(taskStorage, LAMBDA t : t.id # taskId)
          \* saveTasks(); saveCompletedTasks()
          /\ tasksFile' = taskStorage'
          /\ completedFile' = completedTasks'
          /\ reply' = LedgerReply("completed")
  /\ UNCHANGED <<orchestratorVars, present, meetingKey, decision, meetings, nextId>>
  /\ UNCHANGED concurrentVars

\* DELETE /completed-tasks/:taskId
DeleteCompletedTask(taskId) ==
  /\ pc = "idle"
  /\ LET taskIndex == findIndex(completedTasks, taskId) IN
     IF taskIndex = 0
     THEN /\ reply' = LedgerReply("notFound")
          /\ UNCHANGED <<completedTasks, completedFile>>
     ELSE /\ completedTasks' = splice(completedTasks, taskIndex)
          \* saveCompletedTasks()
          /\ completedFile' = completedTasks'
          /\ reply' = LedgerReply("deleted")
  /\ UNCHANGED <<orchestratorVars, present, meetingKey, decision, meetings, taskStorage,
                 tasksFile, nextId>>
  /\ UNCHANGED concurrentVars

\* the priority of a request body: a valid one, another string, or none at all
Priorities == {"high", "urgent", "none"}

acceptsAnyPriority(priority) == priority # "none"

\* !priority || !['high', 'medium', 'low'].includes(priority), negated
isValidPriority(priority) ==
  priority # "none" /\ priority \in {"high", "medium", "low"}

\* PUT /tasks/:taskId/priority; the route does not call saveTasks()
UpdateTaskPriority(taskId, priority) ==
  /\ pc = "idle"
  /\ LET taskIndex == findIndex(taskStorage, taskId) IN
     IF ~isValidPriority(priority)
     THEN /\ reply' = LedgerReply("invalidPriority")
          /\ UNCHANGED taskStorage
     ELSE IF taskIndex = 0
     THEN /\ reply' = LedgerReply("notFound")
          /\ UNCHANGED taskStorage
     ELSE /\ taskStorage' = [taskStorage EXCEPT ![taskIndex].priority = priority]
          /\ reply' = LedgerReply("priorityUpdated")
  /\ UNCHANGED <<orchestratorVars, present, meetingKey, decision, meetings, completedTasks,
                 tasksFile, completedFile, nextId>>
  /\ UNCHANGED concurrentVars

\* task.meetingDate === deletedMeeting.date &&
\* task.meetingTopic === deletedMeeting.topic
belongsToDeletedMeeting(task, m) == meetingKey[task.meeting] = meetingKey[m]

\* cleanupTasksForDeletedMeeting(deletedMeeting): the two collections filtered
\* and the counts it returns
cleanupTasksForDeletedMeeting(m) ==
  LET keptTasks == SelectSeq(taskStorage, LAMBDA t : ~belongsToDeletedMeeting(t, m))
      keptCompleted ==
        SelectSeq(completedTasks, LAMBDA t : ~belongsToDeletedMeeting(t, m))
  IN [taskStorage |-> keptTasks, completedTasks |-> keptCompleted,
      removedTasks |-> Len(taskStorage) - Len(keptTasks),
      removedCompletedTasks |-> Len(completedTasks) - Len(keptCompleted)]

\* DELETE /meetings/:id: the meeting leaves db.data.meetings, then the clean-up
\* of the ledger, which saves both files if it removed something
DeleteMeeting(m) ==
  /\ pc = "idle"
  /\ IF m \notin present
     THEN /\ reply' = LedgerReply("notFound")
          /\ UNCHANGED <<present, meetings, taskStorage, completedTasks, tasksFile,
                         completedFile>>
     ELSE LET cleanupResult == cleanupTasksForDeletedMeeting(m)
              removed == cleanupResult.removedTasks > 0
                           \/ cleanupResult.removedCompletedTasks > 0
          IN /\ present' = present \ {m}
             /\ meetings' = [meetings EXCEPT ![m] = FALSE]
             /\ taskStorage' = cleanupResult.taskStorage
             /\ completedTasks' = cleanupResult.completedTasks
             /\ tasksFile' = IF removed THEN taskStorage' ELSE tasksFile
             /\ completedFile' = IF removed THEN completedTasks' ELSE completedFile
             /\ reply' = [kind |-> "meetingDeleted", method |-> "none",
                          provider |-> NoProvider,
                          removedTasks |-> cleanupResult.removedTasks,
                          removedCompletedTasks |->
                            cleanupResult.removedCompletedTasks]
  /\ UNCHANGED <<orchestratorVars, meetingKey, decision, nextId>>
  /\ UNCHANGED concurrentVars

\* start-up: loadTasks and loadCompletedTasks read the files; tasks.json holds up
\* to MaxLoaded tasks of an earlier extraction, completed_tasks.json is empty
LedgerInit ==
  /\ env = [p \in Providers |-> EnvOf(0, FALSE)]
  /\ providers = [p \in Providers |-> NoInstance]
  /\ pc = "idle"
  /\ op = "none"
  /\ preferred = NoProvider
  /\ attempt = 1
  /\ lastError = NoError
  /\ waited = 0
  /\ candIdx = 1
  /\ working = NoProvider
  /\ retryCount = 0
  /\ response = NoResponse
  /\ outcome = NoOutcome
  /\ tried = <<>>
  /\ requests = 0
  /\ okSeen = FALSE
  /\ selectedSet = {}
  /\ gemini429 = TRUE
  /\ thrown = NoError
  /\ toAnalyze = {}
  /\ isInitialLoad = FALSE
  /\ \E k \in 0..MaxLoaded :
       /\ taskStorage = WithIds([i \in 1..k |-> LoadedTask(i)], 0)
       /\ nextId = k
       /\ meetings = [m \in Meetings |-> k > 0]
  /\ present = Meetings
  /\ meetingKey \in {k \in [Meetings -> Meetings] :
                       \A m \in Meetings : k[m] \in MeetingKeys(m)}
  /\ decision = [m \in Meetings |-> Decision(m)]
  /\ completedTasks = <<>>
  /\ tasksFile = taskStorage
  /\ completedFile = completedTasks
  /\ reply = NoReply
  /\ calls = [i \in Callers |-> NoCall]
  /\ inflight = [i \in Callers |-> NoRequest]

LedgerNext ==
  \/ \E taskId \in TaskIds \cup {NoTaskId}, hasTask \in BOOLEAN :
       CompleteTask(taskId, hasTask)
  \/ \E taskId \in TaskIds : DeleteCompletedTask(taskId)
  \/ \E taskId \in TaskIds, priority \in Priorities :
       UpdateTaskPriority(taskId, priority)
  \/ \E m \in Meetings : DeleteMeeting(m)

LedgerSpec == LedgerInit /\ [][LedgerNext]_vars

(***************************************************************************)
(* Properties of the ledger routes                                         *)
(***************************************************************************)
\* C9: however often complete-task is called with a task id, the completed set
\* holds at most one entry with that id.
C9_OneEntryPerCompletedId ==
  \A i, j \in 1..Len(completedTasks) :
    completedTasks[i].id = completedTasks[j].id => i = j

\* C10: complete-task changes the ledger only for an id of the active set: a
\* call that names any other id is answered NotFound, so the completed set
\* takes in no entry and the active set stays as it is.
C10_UnknownIdNotFound ==
  [][(reply'.kind = "completed" /\ completedTasks' # completedTasks) =>
       completedTasks'[Len(completedTasks')].id \in ActiveIds]_vars

(***************************************************************************)
(* The routes that analyse meetings: GET /important-tasks, POST /analyze   *)
(* and POST /meetings, with POST /complete-task between the requests       *)
(***************************************************************************)
\* the requests name no provider
MeetingPrefs == {NoProvider}

\* start-up: Gemini has a key or no provider has one; the repository holds all
\* meetings but the newest, none analysed, and the ledger is empty
MeetingInit ==
  /\ \E g \in 0..1 :
       env = [p \in Providers |-> EnvOf(IF p = "gemini" THEN g ELSE 0, FALSE)]
  /\ providers = [p \in Providers |-> NoInstance]
  /\ pc = "idle"
  /\ op = "none"
  /\ preferred = NoProvider
  /\ attempt = 1
  /\ lastError = NoError
  /\ waited = 0
  /\ candIdx = 1
  /\ working = NoProvider
  /\ retryCount = 0
  /\ response = NoResponse
  /\ outcome = NoOutcome
  /\ tried = <<>>
  /\ requests = 0
  /\ okSeen = FALSE
  /\ selectedSet = {}
  /\ gemini429 = TRUE
  /\ thrown = NoError
  /\ toAnalyze = {}
  /\ isInitialLoad = FALSE
  /\ present = Meetings \ {NumMeetings}
  /\ meetingKey = [m \in Meetings |-> m]
  /\ decision = [m \in Meetings |-> Decision(m)]
  /\ meetings = [m \in Meetings |-> FALSE]
  /\ taskStorage = <<>>
  /\ completedTasks = <<>>
  /\ tasksFile = <<>>
  /\ completedFile = <<>>
  /\ nextId = 0
  /\ reply = NoReply
  /\ calls = [i \in Callers |-> NoCall]
  /\ inflight = [i \in Callers |-> NoRequest]

MeetingNext ==
  \/ \E pref \in MeetingPrefs : nextId < MaxIssued /\ ReceiveImportantTasks(pref)
  \/ \E m \in Meetings \cup {0}, pref \in MeetingPrefs : ReceiveAnalyze(m, pref)
  \/ \E key \in Meetings, complete \in BOOLEAN : ReceiveCreateMeeting(key, complete)
  \/ \E r \in Responses : TryCandidate(r)
  \/ NoWorkingProvider
  \/ CatchError
  \/ \E r \in Responses : InvokeOperation(r)
  \/ \E r \in Responses : GeminiExtractStep(r)
  \/ FinishImportantTasks
  \/ FinishAnalyze
  \/ FinishCreateMeeting
  \/ \E taskId \in ActiveIds : CompleteTask(taskId, TRUE)
  \/ EndRequest

MeetingSpec == MeetingInit /\ [][MeetingNext]_vars

\* C11: a task id that was moved to the completed set is never in the active
\* set again: whatever extract, analyze, meeting-create and complete
\* operations ran, no task id is in both the active and the completed set.
C11_NoIdActiveAndCompleted ==
  ActiveIds \cap {completedTasks[i].id : i \in 1..Len(completedTasks)} = {}

\* C12: once a meeting's analysed flag is set, no important-tasks request,
\* single-meeting analysis or automatic analysis extracts tasks from it again
\* unless the ledger was empty when the request came: a request made while the
\* ledger holds tasks analyses only meetings whose flag is unset.
C12_AnalysedMeetingNotExtractedAgain ==
  (pc = "route" /\ taskStorage # <<>> /\ (okSeen \/ op = "extract")) =>
    \A m \in toAnalyze : ~meetings[m]

\* C13: when candidates are merged into the active set, a candidate whose title
\* is the title of a task already in the active set is not appended, and every
\* task the active set held before the merge is still there with its fields
\* unchanged.
C13_MergeDedupesByTitle ==
  [][(pc = "route" /\ pc' = "done") =>
       /\ Len(taskStorage') >= Len(taskStorage)
       /\ SubSeq(taskStorage', 1, Len(taskStorage)) = taskStorage
       /\ \A j \in (Len(taskStorage) + 1)..Len(taskStorage') :
            taskStorage'[j].title \notin Titles(taskStorage)]_vars

\* C19: while no provider has any credential an orchestrated operation fails at
\* once, on every path that starts one (ask, analyze, important-tasks, the
\* automatic analysis of a new meeting): no test() and no operation is
\* invoked, and the outer retry loop does not try again.
C19_UnconfiguredFailsAtOnce ==
  (\A p \in Providers, s \in Slots : env[p][s] = "none") =>
    /\ attempt = 1
    /\ requests = 0
    /\ ~InCall
    /\ \A i \in 1..Len(tried) : tried[i][2] \notin {"ok", "failed"}

(***************************************************************************)
(* The key routes POST /save-key and DELETE /delete-key                    *)
(***************************************************************************)
\* the slots a request names: provider, provider_1 .. provider_<MaxKeys> for
\* Gemini, the base slot for OpenAI and Claude
KeySlots(p) == 1..(IF p = "gemini" THEN MaxKeys ELSE 1)
\* req.body.apiKey: missing, white space only, or a key
KeyValues == {"none", "blank", "key"}

\* POST /save-key: .env is rewritten and process.env[envVarName] = apiKey; the
\* cached provider instances are not touched
SaveKey(p, slot, apiKey) ==
  /\ pc = "idle"
  /\ IF apiKey = "none"
     THEN /\ reply' = LedgerReply("badRequest")
          /\ UNCHANGED env
     ELSE /\ env' = [env EXCEPT ![p][slot] = apiKey]
          /\ reply' = LedgerReply("keySaved")
  /\ UNCHANGED <<providers, pc, op, preferred, attempt, lastError, waited, candIdx, working,
                 outcome, thrown, callVars, histVars, ledgerVars, routeVars>>
  /\ UNCHANGED concurrentVars

\* DELETE /delete-key: 404 unless .env holds a non-empty value for the slot
\* (.env holds what process.env holds, its values trimmed when parsed)
DeleteKey(p, slot) ==
  /\ pc = "idle"
  /\ IF env[p][slot] # "key"
     THEN /\ reply' = LedgerReply("notFound")
          /\ UNCHANGED env
     ELSE /\ env' = [env EXCEPT ![p][slot] = "none"]
          /\ reply' = LedgerReply("keyDeleted")
  /\ UNCHANGED <<providers, pc, op, preferred, attempt, lastError, waited, candIdx, working,
                 outcome, thrown, callVars, histVars, ledgerVars, routeVars>>
  /\ UNCHANGED concurrentVars

\* start-up with the keys of .env: every provider has no key or its first keys
KeyInit ==
  /\ \E g \in 0..MaxKeys, o \in 0..1, c \in 0..1 :
       env = [p \in Providers |->
                EnvOf(IF p = "gemini" THEN g ELSE IF p = "openai" THEN o ELSE c,
                      FALSE)]
  /\ providers = [p \in Providers |-> NoInstance]
  /\ pc = "idle"
  /\ op = "none"
  /\ preferred = NoProvider
  /\ attempt = 1
  /\ lastError = NoError
  /\ waited = 0
  /\ candIdx = 1
  /\ working = NoProvider
  /\ retryCount = 0
  /\ response = NoResponse
  /\ outcome = NoOutcome
  /\ tried = <<>>
  /\ requests = 0
  /\ okSeen = FALSE
  /\ selectedSet = {}
  /\ gemini429 = TRUE
  /\ thrown = NoError
  /\ toAnalyze = {}
  /\ isInitialLoad = FALSE
  /\ present = Meetings
  /\ meetingKey = [m \in Meetings |-> m]
  /\ decision = [m \in Meetings |-> Decision(m)]
  /\ meetings = [m \in Meetings |-> FALSE]
  /\ taskStorage = <<>>
  /\ completedTasks = <<>>
  /\ tasksFile = <<>>
  /\ completedFile = <<>>
  /\ nextId = 0
  /\ reply = NoReply
  /\ calls = [i \in Callers |-> NoCall]
  /\ inflight = [i \in Callers |-> NoRequest]

KeyNext ==
  \/ ListProviders
  \/ \E p \in Providers : \E slot \in KeySlots(p), apiKey \in KeyValues :
       SaveKey(p, slot, apiKey)
  \/ \E p \in Providers : \E slot \in KeySlots(p) : DeleteKey(p, slot)

KeySpec == KeyInit /\ [][KeyNext]_vars

\* C17: in every reachable state, also after keys were saved or deleted while
\* the provider instances were cached, the configured flag getAvailableProviders
\* reports for a provider (the check getWorkingProvider makes too) tells whether
\* the provider's credential pool is non-empty.
C17_ConfiguredIffPoolNonEmpty ==
  \A p \in Providers :
    providers[p].created => (hasValidApiKeys(p) <=> isConfigured(providers[p]))

\* C14: cleanupTasksForDeletedMeeting(m) takes out of the active and the
\* completed set exactly the tasks derived from meeting m, none derived from
\* another meeting, and returns how many active and how many completed tasks
\* it removed.
C14_CleanupRemovesOnlyItsMeeting ==
  [][\A m \in Meetings :
       (DeleteMeeting(m) /\ reply'.kind = "meetingDeleted") =>
       LET ofOthers(ts) == SelectSeq(ts, LAMBDA t : t.meeting # m)
       IN /\ taskStorage' = ofOthers(taskStorage)
          /\ completedTasks' = ofOthers(completedTasks)
          /\ reply'.removedTasks = Len(taskStorage) - Len(taskStorage')
          /\ reply'.removedCompletedTasks =
               Len(completedTasks) - Len(completedTasks')]_vars

\* C15: updateTaskPriority with a priority outside {high, medium, low} fails
\* with InvalidArgument and with a task id that is not in the active set fails
\* with NotFound, both leaving every task as it was; on success only the
\* priority of the addressed task changes.
C15_PriorityUpdateFrame ==
  [][\A taskId \in TaskIds, priority \in Priorities :
       (reply'.kind \in {"invalidPriority", "notFound", "priorityUpdated"}
          /\ UpdateTaskPriority(taskId, priority)) =>
       LET valid == priority \in {"high", "medium", "low"}
           known == \E i \in 1..Len(taskStorage) : taskStorage[i].id = taskId
       IN /\ completedTasks' = completedTasks
          /\ ~valid => reply'.kind = "invalidPriority" /\ taskStorage' = taskStorage
          /\ (valid /\ ~known) =>
               reply'.kind = "notFound" /\ taskStorage' = taskStorage
          /\ (valid /\ known) =>
               /\ reply'.kind = "priorityUpdated"
               /\ \E i \in 1..Len(taskStorage) :
                    /\ taskStorage[i].id = taskId
                    /\ taskStorage' =
                         [taskStorage EXCEPT ![i] =
                            [id |-> taskStorage[i].id, title |-> taskStorage[i].title,
                             meeting |-> taskStorage[i].meeting,
                             priority |-> priority,
                             isUrgent |-> taskStorage[i].isUrgent,
                             score |-> taskStorage[i].score]]]_vars

\* a task of the active set has taken the priority a request gave it
C15_Witness ==
  /\ reply.kind = "priorityUpdated"
  /\ \E i \in 1..Len(taskStorage) : taskStorage[i].priority = "high"
  /\ \E i \in 1..Len(taskStorage) : taskStorage[i].priority = "medium"

\* C20: after every ledger mutation (merge, complete-task, priority update,
\* clean-up, deletion of a completed task) tasks.json and completed_tasks.json
\* hold what the in-memory active and completed sets hold.
C20_FilesEqualMemory ==
  pc = "idle" => (tasksFile = taskStorage /\ completedFile = completedTasks)

(***************************************************************************)
(* The text analysis of GET /important-tasks over decision texts           *)
(***************************************************************************)
\* start-up: Gemini has one key, the ledger is empty, no meeting is analysed,
\* and every meeting of the repository carries one of the decision texts
ExtractorInit ==
  /\ env = [p \in Providers |-> EnvOf(IF p = "gemini" THEN 1 ELSE 0, FALSE)]
  /\ providers = [p \in Providers |-> NoInstance]
  /\ pc = "idle"
  /\ op = "none"
  /\ preferred = NoProvider
  /\ attempt = 1
  /\ lastError = NoError
  /\ waited = 0
  /\ candIdx = 1
  /\ working = NoProvider
  /\ retryCount = 0
  /\ response = NoResponse
  /\ outcome = NoOutcome
  /\ tried = <<>>
  /\ requests = 0
  /\ okSeen = FALSE
  /\ selectedSet = {}
  /\ gemini429 = TRUE
  /\ thrown = NoError
  /\ toAnalyze = {}
  /\ isInitialLoad = FALSE
  /\ present = Meetings
  /\ meetingKey = [m \in Meetings |-> m]
  /\ decision \in [Meetings -> DecisionTexts]
  /\ meetings = [m \in Meetings |-> FALSE]
  /\ taskStorage = <<>>
  /\ completedTasks = <<>>
  /\ tasksFile = <<>>
  /\ completedFile = <<>>
  /\ nextId = 0
  /\ reply = NoReply
  /\ calls = [i \in Callers |-> NoCall]
  /\ inflight = [i \in Callers |-> NoRequest]

\* the requests name no provider; a request comes while the ledger is empty
ExtractorNext ==
  \/ taskStorage = <<>> /\ ReceiveImportantTasks(NoProvider)
  \/ \E r \in Responses : TryCandidate(r)
  \/ NoWorkingProvider
  \/ CatchError
  \/ \E r \in Responses : InvokeOperation(r)
  \/ \E r \in Responses : GeminiExtractStep(r)
  \/ FinishImportantTasks
  \/ EndRequest

ExtractorSpec == ExtractorInit /\ [][ExtractorNext]_vars

\* the request was answered with the candidates of the text analysis, which on
\* this first load are the whole active set
TextAnswered ==
  pc = "done" /\ reply.kind = "tasks" /\ reply.method = "text" /\ isInitialLoad

\* C21: the priority and isUrgent of every candidate the text analysis emits
\* follow from its score alone - 6 and more: high and urgent; 4 or 5: medium,
\* not urgent; 1 to 3: low, not urgent - and a decision of a single sentence
\* with one urgent, one deadline and one action keyword yields exactly one
\* candidate, urgent and of priority high.
C21_PriorityFromScoreAlone ==
  TextAnswered =>
    /\ \A i \in 1..Len(taskStorage) :
         LET t == taskStorage[i] IN
         /\ t.score >= 1
         /\ t.score >= 6 => (t.priority = "high" /\ t.isUrgent)
         /\ (4 <= t.score /\ t.score < 6) => (t.priority = "medium" /\ ~t.isUrgent)
         /\ t.score < 4 => (t.priority = "low" /\ ~t.isUrgent)
    /\ \A m \in toAnalyze :
         (/\ Len(decision[m]) = 1
          /\ decision[m][1].urgent = 1
          /\ decision[m][1].deadline = 1
          /\ decision[m][1].action = 1) =>
         \E i \in 1..Len(taskStorage) :
           /\ taskStorage[i].meeting = m
           /\ taskStorage[i].isUrgent
           /\ taskStorage[i].priority = "high"
           /\ \A j \in 1..Len(taskStorage) : taskStorage[j].meeting = m => j = i

\* the text analysis emitted candidates of all three priorities, among them
\* the one candidate of a single-sentence decision with an urgent, a deadline
\* and an action keyword
C21_Witness ==
  /\ TextAnswered
  /\ {taskStorage[i].priority : i \in 1..Len(taskStorage)} = {"high", "medium", "low"}
  /\ \E m \in toAnalyze :
       /\ Len(decision[m]) = 1
       /\ decision[m][1].urgent = 1 /\ decision[m][1].deadline = 1
       /\ decision[m][1].action = 1
       /\ \E i \in 1..Len(taskStorage) : taskStorage[i].meeting = m

\* the candidates the text analysis made of the analysed meetings before it
\* sorted and cut them, with the ids it gave them
Candidates ==
  LET found == AllTasks(toAnalyze, NumMeetings)
  IN WithIds(found, nextId - Len(found))

\* C22: the text analysis emits at most 8 candidates, in the order of
\* non-increasing score (equal scores: urgent ones first, then the higher
\* priority first), and every candidate it emits scores at least as high as
\* every candidate the cut to 8 dropped.
C22_TopEightByScore ==
  TextAnswered =>
    /\ Len(taskStorage) <= 8
    /\ \A i, j \in 1..Len(taskStorage) :
         i < j =>
           LET a == taskStorage[i]
               b == taskStorage[j]
               rank(t) == IF t.priority = "high" THEN 3
                          ELSE IF t.priority = "medium" THEN 2 ELSE 1
           IN /\ a.score >= b.score
              /\ a.score = b.score => (a.isUrgent \/ ~b.isUrgent)
              /\ (a.score = b.score /\ a.isUrgent = b.isUrgent) => rank(a) >= rank(b)
    /\ \A k \in 1..Len(Candidates) :
         (\A i \in 1..Len(taskStorage) : taskStorage[i].id # Candidates[k].id) =>
           \A i \in 1..Len(taskStorage) : taskStorage[i].score >= Candidates[k].score

\* ten candidates of different scores were found and the two lowest were dropped
C22_Witness ==
  /\ TextAnswered
  /\ Len(Candidates) > 8
  /\ Len(taskStorage) = 8
  /\ taskStorage[1].score > taskStorage[8].score
  /\ \E k \in 1..Len(Candidates) :
       /\ \A i \in 1..Len(taskStorage) : taskStorage[i].id # Candidates[k].id
       /\ Candidates[k].score < taskStorage[8].score

\* C24: the text analysis scores every sentence whose trimmed length is at
\* least 15 characters and discards only the shorter ones: while nothing is cut
\* off, a sentence has a candidate exactly if it has 15 characters or more and
\* a score of at least 1.
C24_SentencesFromFifteenCharacters ==
  (TextAnswered /\ Len(Candidates) <= 8) =>
    \A m \in toAnalyze : \A i \in 1..Len(decision[m]) :
      (decision[m][i].len >= 15 /\ importanceScore(decision[m][i]) >= 1)
        <=> \E k \in 1..Len(taskStorage) : taskStorage[k].title = <<"text", m, i>>

\* C25: every candidate the text analysis emits has a title of at most 60
\* characters, however long its sentence is.
C25_TitleAtMostSixtyCharacters ==
  TextAnswered => \A i \in 1..Len(taskStorage) : taskStorage[i].titleLength <= 60

\* C27: one extractImportantTasks operation adds at most 8 tasks to the active
\* set, whether an important-tasks request or the automatic analysis of a new
\* meeting ran it and however many tasks the provider returned.
C27_AtMostEightTasksPerExtraction ==
  [][(pc = "route" /\ op \in {"extract", "auto"} /\ pc' = "done") =>
       Len(taskStorage') - Len(taskStorage) <= 8]_vars

\* C26: when the extraction of an important-tasks request completes, by the AI
\* or by the text analysis, every meeting that was passed to it has its
\* analysed flag set, and when the active set was empty at its start every
\* meeting of the repository has.
C26_ExtractionMarksMeetings ==
  [][(pc = "route" /\ op = "extract" /\ pc' = "done") =>
       /\ reply'.method \in {"ai", "text"}
       /\ \A m \in toAnalyze : meetings'[m]
       /\ taskStorage = <<>> => \A m \in present : meetings'[m]]_vars

\* the text analysis of a meeting that was added after the first load has
\* completed and the meeting is marked
C26_Witness ==
  /\ pc = "done"
  /\ op = "extract"
  /\ reply.method = "text"
  /\ ~isInitialLoad
  /\ toAnalyze # {}
  /\ \A m \in present : meetings[m]

(***************************************************************************)
(* Concurrent Gemini calls on the one cached instance                      *)
(***************************************************************************)
serialVars == <<orchestratorVars, ledgerVars, reply>>

\* operation(provider) of one request enters the retry loop of askQuestion or
\* extractImportantTasks while other requests may be inside theirs; the first
\* pass reads getCurrentApiKey() and awaits its fetch
CallStart(i) ==
  /\ calls[i].at = "idle"
  /\ providers["gemini"].created
  /\ isConfigured(providers["gemini"])
  /\ calls' = [calls EXCEPT ![i] = [NoCall EXCEPT !.at = "fetch"]]
  /\ UNCHANGED <<serialVars, inflight>>

\* the fetch of caller i is answered: the rest of this pass of the loop, which on
\* a 429 rotates the shared cursor, up to the await of the next pass (the key
\* of that pass is read from the cursor as it stands when its wait is over) or
\* to the end of the call
CallAnswer(i, r) ==
  /\ calls[i].at = "fetch"
  /\ IF r = "ok"
     THEN /\ calls' = [calls EXCEPT ![i] = NoCall]
          /\ UNCHANGED providers
     ELSE LET p == retryPass(providers["gemini"], calls[i].retryCount,
                             calls[i].response, r)
          IN /\ providers' = [providers EXCEPT !["gemini"] = p.inst]
             /\ calls' = [calls EXCEPT ![i] =
                            IF p.throw = NoError /\ p.rc < maxInner(p.inst)
                            THEN [at |-> "fetch", retryCount |-> p.rc,
                                  response |-> p.response]
                            ELSE NoCall]
  /\ UNCHANGED <<env, pc, op, preferred, attempt, lastError, waited, candIdx,
                 working, retryCount, response, outcome, tried, requests, okSeen,
                 selectedSet, gemini429, thrown, toAnalyze, isInitialLoad,
                 ledgerVars, reply, inflight>>

\* start-up: Gemini has one key or more
PoolInit ==
  /\ \E n \in 1..MaxKeys :
       env = [p \in Providers |-> EnvOf(IF p = "gemini" THEN n ELSE 0, FALSE)]
  /\ providers = [p \in Providers |-> NoInstance]
  /\ pc = "idle"
  /\ op = "none"
  /\ preferred = NoProvider
  /\ attempt = 1
  /\ lastError = NoError
  /\ waited = 0
  /\ candIdx = 1
  /\ working = NoProvider
  /\ retryCount = 0
  /\ response = NoResponse
  /\ outcome = NoOutcome
  /\ tried = <<>>
  /\ requests = 0
  /\ okSeen = FALSE
  /\ selectedSet = {}
  /\ gemini429 = TRUE
  /\ thrown = NoError
  /\ toAnalyze = {}
  /\ isInitialLoad = FALSE
  /\ present = Meetings
  /\ meetingKey = [m \in Meetings |-> m]
  /\ decision = [m \in Meetings |-> Decision(m)]
  /\ meetings = [m \in Meetings |-> FALSE]
  /\ taskStorage = <<>>
  /\ completedTasks = <<>>
  /\ tasksFile = <<>>
  /\ completedFile = <<>>
  /\ nextId = 0
  /\ reply = NoReply
  /\ calls = [i \in Callers |-> NoCall]
  /\ inflight = [i \in Callers |-> NoRequest]

PoolNext ==
  \/ ListProviders
  \/ \E i \in Callers : CallStart(i)
  \/ \E i \in Callers, r \in Responses : CallAnswer(i, r)

PoolSpec == PoolInit /\ [][PoolNext]_vars

\* C28: however the passes of concurrent calls interleave on one provider's
\* pool, its cursor stays within [0, pool size) and its key list stays as the
\* constructor made it; a race changes only which key is tried next.
C28_CursorInRangeUnderRaces ==
  /\ [](\A p \in Providers :
          providers[p].created =>
            /\ providers[p].apiKeys = getApiKeys(p)
            /\ providers[p].currentKeyIndex >= 0
            /\ Len(providers[p].apiKeys) > 0 =>
                 providers[p].currentKeyIndex < Len(providers[p].apiKeys))
  /\ [][\A p \in Providers :
          providers[p].created => providers'[p].apiKeys = providers[p].apiKeys]_vars

\* two calls are in their loops, each was answered 429 and rotated the cursor,
\* which with two keys is back at the key both were limited on
C28_Witness ==
  /\ \A i \in 1..2 :
       /\ calls[i].at = "fetch"
       /\ calls[i].retryCount = 1
       /\ calls[i].response.status = "s429"
  /\ Len(providers["gemini"].apiKeys) = 2
  /\ providers["gemini"].currentKeyIndex = 0

(***************************************************************************)
(* Ledger requests whose handlers interleave at their awaits               *)
(***************************************************************************)
\* what executeWithFallback can give a handler: an answer of Gemini, or the
\* error of the last attempt
RaceOutcomes(ms) ==
  {[kind |-> "raised", error |-> "NoWorkingProvider", provider |-> NoProvider,
    tasks |-> NoTasks]} \cup
  {[kind |-> "returned", error |-> NoError, provider |-> "gemini", tasks |-> ans] :
     ans \in AiAnswers(ms)}

\* GET /important-tasks up to its call of executeWithFallback: after db.read()
\* it reads the meetings and taskStorage and decides what to analyse (a
\* request that is answered from the cache changes nothing)
RaceReceiveImportantTasks(i) ==
  /\ inflight[i].kind = "none"
  /\ nextId < MaxIssued
  /\ hasAnyApiKeys
  /\ LET allMeetings == present
         unanalyzedMeetings == {m \in allMeetings : ~meetings[m]}
     IN /\ allMeetings # {}
        /\ taskStorage = <<>> \/ unanalyzedMeetings # {}
        /\ inflight' = [inflight EXCEPT ![i] =
                          [kind |-> "extract", at |-> "ai",
                           toAnalyze |-> IF taskStorage = <<>> THEN allMeetings
                                         ELSE unanalyzedMeetings,
                           isInitialLoad |-> taskStorage = <<>>,
                           allMeetings |-> allMeetings, newTasks |-> <<>>]]
  /\ UNCHANGED <<serialVars, calls>>

\* POST /meetings up to its call of executeWithFallback
RaceCreateMeeting(i) ==
  /\ inflight[i].kind = "none"
  /\ nextId < MaxIssued
  /\ LET newMeeting == IF present = {} THEN 1 ELSE Newest(present) + 1 IN
     /\ newMeeting \in Meetings
     /\ present' = present \cup {newMeeting}
     /\ meetingKey' = [meetingKey EXCEPT ![newMeeting] = newMeeting]
     /\ decision' = [decision EXCEPT ![newMeeting] = Decision(newMeeting)]
     /\ meetings' = [meetings EXCEPT ![newMeeting] = FALSE]
     /\ inflight' = [inflight EXCEPT ![i] =
                       [kind |-> "auto", at |-> "ai", toAnalyze |-> {newMeeting},
                        isInitialLoad |-> FALSE, allMeetings |-> present',
                        newTasks |-> <<>>]]
  /\ UNCHANGED <<orchestratorVars, taskStorage, completedTasks, tasksFile,
                 completedFile, nextId, reply, calls>>

\* executeWithFallback settles for caller i: the handler gives the tasks their
\* ids, marks the meetings and awaits db.write()
RaceSettle(i, o) ==
  /\ inflight[i].at = "ai"
  /\ LET req == inflight[i] IN
     IF req.kind = "extract"
     THEN LET result == extracted(o, req.toAnalyze, nextId) IN
          /\ meetings' = markAnalyzed(req.allMeetings, req.toAnalyze,
                                      req.isInitialLoad)
          /\ nextId' = nextId + result.found
          /\ inflight' = [inflight EXCEPT ![i].at = "write",
                                          ![i].newTasks = result.newTasks]
     ELSE IF aiSucceeded(o) /\ Len(o.tasks.items) > 0
     THEN /\ meetings' = markAnalyzed(req.allMeetings, req.toAnalyze, FALSE)
          /\ nextId' = nextId + Len(o.tasks.items)
          /\ inflight' = [inflight EXCEPT ![i].at = "write",
                                          ![i].newTasks = WithIds(o.tasks.items, nextId)]
     ELSE /\ inflight' = [inflight EXCEPT ![i] = NoRequest]
          /\ UNCHANGED <<meetings, nextId>>
  /\ UNCHANGED <<orchestratorVars, present, meetingKey, decision, taskStorage,
                 completedTasks, tasksFile, completedFile, reply, calls>>

\* db.write() is done for caller i: the handler updates taskStorage, saves it
\* and answers
RaceMerge(i) ==
  /\ inflight[i].at = "write"
  /\ LET req == inflight[i] IN
     /\ taskStorage' = mergeNew(taskStorage, req.newTasks, req.isInitialLoad)
     /\ tasksFile' =
          IF req.kind = "extract"
          THEN (IF req.isInitialLoad \/ taskStorage' # taskStorage
                THEN taskStorage' ELSE tasksFile)
          ELSE tasksFile \o SubSeq(taskStorage', Len(taskStorage) + 1,
                                    Len(taskStorage'))
  /\ inflight' = [inflight EXCEPT ![i] = NoRequest]
  /\ UNCHANGED <<orchestratorVars, present, meetingKey, decision, meetings,
                 completedTasks, completedFile, nextId, reply, calls>>

\* start-up: Gemini has a key, the repository holds all meetings but the
\* newest, none analysed, and the ledger is empty
RaceInit ==
  /\ env = [p \in Providers |-> EnvOf(IF p = "gemini" THEN 1 ELSE 0, FALSE)]
  /\ providers = [p \in Providers |-> NoInstance]
  /\ pc = "idle"
  /\ op = "none"
  /\ preferred = NoProvider
  /\ attempt = 1
  /\ lastError = NoError
  /\ waited = 0
  /\ candIdx = 1
  /\ working = NoProvider
  /\ retryCount = 0
  /\ response = NoResponse
  /\ outcome = NoOutcome
  /\ tried = <<>>
  /\ requests = 0
  /\ okSeen = FALSE
  /\ selectedSet = {}
  /\ gemini429 = TRUE
  /\ thrown = NoError
  /\ toAnalyze = {}
  /\ isInitialLoad = FALSE
  /\ present = Meetings \ {NumMeetings}
  /\ meetingKey = [m \in Meetings |-> m]
  /\ decision = [m \in Meetings |-> Decision(m)]
  /\ meetings = [m \in Meetings |-> FALSE]
  /\ taskStorage = <<>>
  /\ completedTasks = <<>>
  /\ tasksFile = <<>>
  /\ completedFile = <<>>
  /\ nextId = 0
  /\ reply = NoReply
  /\ calls = [i \in Callers |-> NoCall]
  /\ inflight = [i \in Callers |-> NoRequest]

RaceNext ==
  \/ \E i \in Callers : RaceReceiveImportantTasks(i)
  \/ \E i \in Callers : RaceCreateMeeting(i)
  \/ \E i \in Callers :
       /\ inflight[i].at = "ai"
       /\ \E o \in RaceOutcomes(inflight[i].toAnalyze) : RaceSettle(i, o)
  \/ \E i \in Callers : RaceMerge(i)
  \/ \E taskId \in ActiveIds : CompleteTask(taskId, TRUE)

RaceSpec == RaceInit /\ [][RaceNext]_vars

\* C29: requests whose handlers interleave at their awaits leave the ledger as
\* a serial execution would: no step of a request drops a task of the active
\* set (its title for its meeting) that was not completed in that step, and
\* none makes the active set hold a task twice.
C29_InterleavingsKeepTheLedger ==
  [][/\ \A k \in 1..Len(taskStorage) :
          \/ \E j \in 1..Len(taskStorage') :
               /\ taskStorage'[j].title = taskStorage[k].title
               /\ taskStorage'[j].meeting = taskStorage[k].meeting
          \/ \E j \in 1..Len(completedTasks') :
               completedTasks'[j].id = taskStorage[k].id
     /\ \A a, b \in 1..Len(taskStorage') :
          (taskStorage'[a].title = taskStorage'[b].title) => a = b]_vars

=============================================================================
